---------------------------- MODULE Spec2Model ----------------------------
(***************************************************************************)
(* A model of the variants-index builder: main.py drives                   *)
(* src/build.py (registry scan, variant metadata cache, reconciliation)    *)
(* and src/schemas (v0.0.2 -> v0.0.3 migration).                           *)
(*                                                                         *)
(* File names are sequences of one-character strings, so that the code's   *)
(* str.split, regular expressions and string comparisons are computed,     *)
(* character by character, as Python computes them.  JSON objects whose    *)
(* key order is observable are sequences of <<key, value>> pairs.          *)
(***************************************************************************)
EXTENDS Integers, Sequences, FiniteSets, TLC

(***************************************************************************)
(* Bounds of the model.                                                    *)
(***************************************************************************)
\* anchors the configured registries serve over one run (all pages together)
MaxArtifacts == 3
\* anchors on one pypi.org page
MaxFallback == 1
\* [[index]] tables of index.toml
MaxIndexes == 2

(***************************************************************************)
(* Characters and strings.                                                 *)
(***************************************************************************)
Digits == <<"0", "1", "2", "3", "4", "5", "6", "7", "8", "9">>

Lowers ==
    <<"a", "b", "c", "d", "e", "f", "g", "h", "i", "j", "k", "l", "m",
      "n", "o", "p", "q", "r", "s", "t", "u", "v", "w", "x", "y", "z">>

IsDigit(c) == \E i \in 1..10 : Digits[i] = c

IsLower(c) == \E i \in 1..26 : Lowers[i] = c

Alphabet ==
    {" ", "-", ".", ":", "_"} \cup {Digits[i] : i \in 1..10} \cup {Lowers[i] : i \in 1..26}

\* the code points of the characters file names are made of here (ASCII)
CodePoints ==
    [c \in Alphabet |->
        CASE c = " " -> 32
          [] c = "-" -> 45
          [] c = "." -> 46
          [] IsDigit(c) -> 47 + (CHOOSE i \in 1..10 : Digits[i] = c)
          [] c = ":" -> 58
          [] c = "_" -> 95
          [] IsLower(c) -> 96 + (CHOOSE i \in 1..26 : Lowers[i] = c)]

Ord(c) == CodePoints[c]

\* Python's str < str: lexicographic by code point, a proper prefix is smaller
RECURSIVE StrLess(_, _)
StrLess(s, t) ==
    IF t = <<>> THEN FALSE
    ELSE IF s = <<>> THEN TRUE
    ELSE IF Head(s) = Head(t) THEN StrLess(Tail(s), Tail(t))
    ELSE Ord(Head(s)) < Ord(Head(t))

StartsWith(s, p) == Len(p) <= Len(s) /\ SubSeq(s, 1, Len(p)) = p

EndsWith(s, p) ==
    Len(p) <= Len(s) /\ SubSeq(s, Len(s) - Len(p) + 1, Len(s)) = p

\* the pieces of s from position start on, the scan standing at position i
RECURSIVE SplitFrom(_, _, _, _)
SplitFrom(s, sep, start, i) ==
    IF i > Len(s) THEN <<SubSeq(s, start, Len(s))>>
    ELSE IF s[i] = sep
         THEN <<SubSeq(s, start, i - 1)>> \o SplitFrom(s, sep, i + 1, i + 1)
    ELSE SplitFrom(s, sep, start, i + 1)

\* s.split(sep) for a one-character separator: always at least one piece
Split(s, sep) == SplitFrom(s, sep, 1, 1)

\* int(s) for a non-empty string of decimal digits
RECURSIVE DigitsValue(_)
DigitsValue(s) ==
    IF s = <<>> THEN 0
    ELSE 10 * DigitsValue(SubSeq(s, 1, Len(s) - 1)) + (Ord(s[Len(s)]) - 48)


(***************************************************************************)
(* packaging.version.Version, for the release-only versions N(.N)* that    *)
(* occur here: the key is the release tuple without its trailing zeros.    *)
(***************************************************************************)
InvalidVersion == <<-1>>

IsNumber(s) == s # <<>> /\ \A i \in 1..Len(s) : IsDigit(s[i])

RECURSIVE StripZeros(_)
StripZeros(t) ==
    IF t # <<>> /\ t[Len(t)] = 0 THEN StripZeros(SubSeq(t, 1, Len(t) - 1))
    ELSE t

\* Version(s)._key, or InvalidVersion where Version(s) raises
Version(s) ==
    LET parts == Split(s, ".")
    IN  IF \A i \in 1..Len(parts) : IsNumber(parts[i])
        THEN StripZeros([i \in 1..Len(parts) |-> DigitsValue(parts[i])])
        ELSE InvalidVersion

\* tuple comparison of two release keys
RECURSIVE VersionLess(_, _)
VersionLess(a, b) ==
    IF b = <<>> THEN FALSE
    ELSE IF a = <<>> THEN TRUE
    ELSE IF Head(a) = Head(b) THEN VersionLess(Tail(a), Tail(b))
    ELSE Head(a) < Head(b)

\* what pkg_name_to_version raises on, and the version it returns
NameVersionFails(name) ==
    LET pieces == Split(name, "-")
    IN  Len(pieces) < 2 \/ Version(pieces[2]) = InvalidVersion

pkg_name_to_version(name) == Version(Split(name, "-")[2])

(***************************************************************************)
(* The two file-name patterns.  Both are matched with re.match on names    *)
(* without white space in which nothing follows the suffix; the pieces     *)
(* between hyphens are then the only places the groups can take.           *)
(***************************************************************************)
NoMatch == [ok |-> FALSE]

NoLabel == <<>>

WhlSuffix == <<".", "w", "h", "l">>

JsonSuffix == <<"v", "a", "r", "i", "a", "n", "t", "s", ".", "j", "s", "o", "n">>

NoSpace(s) == \A i \in 1..Len(s) : s[i] # " "

\* [^\s-]+? between two hyphens
IsTag(s) == s # <<>> /\ NoSpace(s)

\* [0-9a-z._]{1,16}
InLabelClass(c) == IsDigit(c) \/ IsLower(c) \/ c = "." \/ c = "_"

IsLabel(s) ==
    /\ Len(s) >= 1
    /\ Len(s) <= 16
    /\ \A i \in 1..Len(s) : InLabelClass(s[i])

Stem(s) == SubSeq(s, 1, Len(s) - Len(WhlSuffix))

\* VARIANT_WHL_FILE_REGEX.match(name): the optional build group is tried
\* before the match without it, the optional label likewise
VARIANT_WHL_FILE_REGEX(name) ==
    LET p == Split(name, "-")
        n == Len(p)
        base(k) == IsTag(p[1]) /\ NoSpace(p[2])
                   /\ \A i \in (n - k)..(n - 1) : IsTag(p[i])
        build == n >= 6 /\ p[3] # <<>> /\ IsDigit(p[3][1])
        last == p[n]
        plain == EndsWith(last, WhlSuffix) /\ IsTag(Stem(last))
        labelled == EndsWith(last, WhlSuffix) /\ IsLabel(Stem(last))
    IN  IF n = 7 /\ build /\ base(3) /\ labelled
            THEN [ok |-> TRUE, ver |-> p[2], variant_label |-> Stem(last)]
        ELSE IF n = 6 /\ build /\ base(2) /\ plain
            THEN [ok |-> TRUE, ver |-> p[2], variant_label |-> NoLabel]
        ELSE IF n = 6 /\ base(3) /\ labelled
            THEN [ok |-> TRUE, ver |-> p[2], variant_label |-> Stem(last)]
        ELSE IF n = 5 /\ base(2) /\ plain
            THEN [ok |-> TRUE, ver |-> p[2], variant_label |-> NoLabel]
        ELSE NoMatch

\* VARIANT_JSON_FILE_REGEX.match(name): the greedy \S* leaves group 1 the
\* piece right before "-variants.json"
VARIANT_JSON_FILE_REGEX(name) ==
    LET p == Split(name, "-")
        n == Len(p)
    IN  IF n >= 3 /\ p[n] = JsonSuffix /\ NoSpace(name)
        THEN [ok |-> TRUE, ver |-> p[n - 1]]
        ELSE NoMatch

(***************************************************************************)
(* JSON objects as sequences of <<key, value>> pairs in insertion order    *)
(* (a Python dict); keys are strings.                                      *)
(***************************************************************************)
Keys(m) == [i \in 1..Len(m) |-> m[i][1]]

HasKey(m, k) == \E i \in 1..Len(m) : m[i][1] = k

Get(m, k) == m[CHOOSE i \in 1..Len(m) : m[i][1] = k][2]

\* the pair <<k, v>> put into a key-sorted object
RECURSIVE InsertByKey(_, _)
InsertByKey(m, kv) ==
    IF m = <<>> THEN <<kv>>
    ELSE IF StrLess(kv[1], Head(m)[1]) THEN <<kv>> \o m
    ELSE <<Head(m)>> \o InsertByKey(Tail(m), kv)

\* the key order json.dump(sort_keys=True) writes an object in
RECURSIVE SortByKey(_)
SortByKey(m) ==
    IF m = <<>> THEN <<>>
    ELSE InsertByKey(SortByKey(Tail(m)), Head(m))

\* sort_keys reaches every nesting level: namespace -> feature -> [values]
SortKeys2(m) == SortByKey([i \in 1..Len(m) |-> <<m[i][1], SortByKey(m[i][2])>>])

\* label -> namespace -> feature -> [values]
SortKeys3(m) == SortByKey([i \in 1..Len(m) |-> <<m[i][1], SortKeys2(m[i][2])>>])

(***************************************************************************)
(* Schema URLs: the host part and the last path segment are what           *)
(* download_json looks at.                                                 *)
(***************************************************************************)
WheelnextHost == "variants-schema.wheelnext.dev"

RootSchema == [host |-> WheelnextHost, file |-> ""]

V2Schema == [host |-> WheelnextHost, file |-> "v0.0.2.json"]

V3Schema == [host |-> WheelnextHost, file |-> "v0.0.3.json"]

V4Schema == [host |-> WheelnextHost, file |-> "v0.0.4.json"]

ForeignSchema == [host |-> "example.org", file |-> "v0.0.3.json"]

(***************************************************************************)
(* src/schemas: the pydantic models.  A document is a record; an optional  *)
(* field that is absent (or None) is absent from the record.               *)
(*   schema = "$schema", default_priorities = "default-priorities",        *)
(*   static_properties = "static-properties", plugin_use = "plugin-use",   *)
(*   install_time = "install-time".                                        *)
(***************************************************************************)
Has(r, f) == f \in DOMAIN r

\* DefaultPriorities (the same class body in both revisions): namespace is
\* required and not empty, feature and property default to {}
DefaultPrioritiesValid(dp) ==
    /\ DOMAIN dp \subseteq {"namespace", "feature", "property"}
    /\ Has(dp, "namespace")
    /\ Len(dp.namespace) >= 1

DefaultPriorities(dp) ==
    [namespace |-> dp.namespace,
     feature |-> IF Has(dp, "feature") THEN dp.feature ELSE <<>>,
     property |-> IF Has(dp, "property") THEN dp.property ELSE <<>>]

ProviderFieldsV2 == {"plugin_api", "enable_if", "optional", "plugin_use", "requires"}

ProviderFieldsV3 == {"plugin_api", "enable_if", "install_time", "optional", "requires"}

ProvidersValid(provs, fields) ==
    \A i \in 1..Len(provs) : DOMAIN provs[i][2] \subseteq fields

\* WheelVariantJSON_V0_0_2.model_validate(data) succeeds
ValidV2(data) ==
    /\ DOMAIN data \subseteq {"schema", "default_priorities", "providers", "variants"}
    /\ {"default_priorities", "providers", "variants"} \subseteq DOMAIN data
    /\ Has(data, "schema") => data.schema = V2Schema
    /\ DefaultPrioritiesValid(data.default_priorities)
    /\ ProvidersValid(data.providers, ProviderFieldsV2)

\* WheelVariantJSON_V0_0_3.model_validate(data) succeeds
ValidV3(data) ==
    /\ DOMAIN data \subseteq
         {"schema", "default_priorities", "providers", "static_properties", "variants"}
    /\ {"default_priorities", "providers", "variants"} \subseteq DOMAIN data
    /\ Has(data, "schema") => data.schema = V3Schema
    /\ DefaultPrioritiesValid(data.default_priorities)
    /\ ProvidersValid(data.providers, ProviderFieldsV3)

\* the validated v0.0.2 model: defaults filled in
ModelV2(data) ==
    [schema |-> V2Schema,
     default_priorities |-> DefaultPriorities(data.default_priorities),
     providers |-> data.providers,
     variants |-> data.variants]

\* one provider of to_v0_0_3: plugin_use is popped (default "all") and
\* install-time says whether it was "all"
ProviderToV3(prov) ==
    LET use == IF Has(prov, "plugin_use") THEN prov.plugin_use ELSE "all"
        kept == DOMAIN prov \ {"plugin_use"}
    IN  [f \in kept \cup {"install_time"} |->
            IF f = "install_time" THEN use = "all" ELSE prov[f]]

\* StaticProps copying nothing
StaticPropsEmpty(property) == <<>>

\* the namespace -> feature -> values copy loop of to_v0_0_3
StaticProps(property) ==
    [i \in 1..Len(property) |->
        <<property[i][1],
          [j \in 1..Len(property[i][2]) |->
              <<property[i][2][j][1], property[i][2][j][2]>>]>>]

\* WheelVariantJSON_V0_0_2.to_v0_0_3, then model_dump(exclude_none=True,
\* by_alias=True) as download_json dumps it
to_v0_0_3(model) ==
    [schema |-> V3Schema,
     default_priorities |-> DefaultPriorities(model.default_priorities),
     providers |->
        [i \in 1..Len(model.providers) |->
            <<model.providers[i][1], ProviderToV3(model.providers[i][2])>>],
     static_properties |-> StaticProps(model.default_priorities.property),
     variants |-> model.variants]

(***************************************************************************)
(* The fetch primitive.  A response is [status |-> "ok", body |-> ...] or  *)
(* a failure: "HTTPError" is what raise_for_status raises on a non-2xx     *)
(* answer, "ConnectionError" and "Timeout" are what requests.get raises.   *)
(***************************************************************************)
TransportFailures == {"HTTPError", "ConnectionError", "Timeout"}

Raise(exc) == [raised |-> TRUE, exc |-> exc]

Return(v) == [raised |-> FALSE, value |-> v]

\* download_json(url): resp answers the GET of url, sch is the outcome of
\* the nested download of data["$schema"] and of jsonschema.validate
download_json(resp, sch) ==
    IF resp.status # "ok" THEN Raise(resp.status)
    ELSE IF ~Has(resp.body, "schema") THEN Raise("KeyError")
    ELSE IF resp.body.schema.host # WheelnextHost THEN Return(resp.body)
    ELSE
      LET data == IF resp.body.schema = RootSchema
                  THEN [resp.body EXCEPT !.schema = V2Schema]
                  ELSE resp.body
          file == data.schema.file
          dumped == IF file = "v0.0.2.json" THEN to_v0_0_3(ModelV2(data)) ELSE data
      IN  IF file \notin {"v0.0.2.json", "v0.0.3.json"}
              THEN Raise("VariantVersionNotSupportedError")
          ELSE IF file = "v0.0.2.json" /\ ~ValidV2(data) THEN Raise("ValidationError")
          ELSE IF ~ValidV3(dumped) THEN Raise("ValidationError")
          ELSE IF sch \in TransportFailures THEN Raise(sch)
          ELSE IF sch = "mismatch" THEN Raise("SchemaValidationError")
          ELSE Return(dumped)

\* what fetching the remote JSON Schema and jsonschema.validate come to
SchemaOutcomes == {"valid", "mismatch", "HTTPError"}

\* whether download_json gets as far as fetching the schema
AsksSchema(resp) ==
    LET r == download_json(resp, "valid")
    IN  ~r.raised /\ resp.body.schema.host = WheelnextHost

\* the GETs download_json makes: the document, and the schema when the
\* document got through the local validation
DownloadFetches(resp) ==
    IF AsksSchema(resp) THEN <<"document", "schema">> ELSE <<"document">>

\* json.dump(data, sort_keys=True) followed by json.load: the document with
\* every object in key order
SortedPriorities(dp) ==
    [f \in DOMAIN dp |->
        IF f = "feature" THEN SortByKey(dp[f])
        ELSE IF f = "property" THEN SortKeys2(dp[f])
        ELSE dp[f]]

StoredJson(data) ==
    [f \in DOMAIN data |->
        IF f = "default_priorities" THEN SortedPriorities(data[f])
        ELSE IF f = "providers" THEN SortByKey(data[f])
        ELSE IF f = "static_properties" THEN SortKeys2(data[f])
        ELSE IF f = "variants" THEN SortKeys3(data[f])
        ELSE data[f]]

\* load_variant_json without its write of lines 258-260
load_variant_json_unsaved(url, files, resp, sch) ==
    IF url.file \notin DOMAIN files
    THEN [result |-> download_json(resp, sch), files |-> files, hit |-> FALSE]
    ELSE [result |-> Return(files[url.file]), files |-> files, hit |-> TRUE]

\* load_variant_json(url, pkg_cfg) over the package's directory `files`
\* (file name -> stored document): the document or the exception, and the
\* directory afterwards
load_variant_json(url, files, resp, sch) ==
    IF url.file \notin DOMAIN files
    THEN LET r == download_json(resp, sch)
         IN  IF r.raised THEN [result |-> r, files |-> files, hit |-> FALSE]
             ELSE [result |-> r,
                   files |-> [k \in DOMAIN files \cup {url.file} |->
                                 IF k = url.file THEN StoredJson(r.value)
                                 ELSE files[k]],
                   hit |-> FALSE]
    ELSE [result |-> Return(files[url.file]), files |-> files, hit |-> TRUE]

(***************************************************************************)
(* Registry Scanner.  A listing page is a sequence of anchors              *)
(* [text, href]; an artifact is [kind, name, link] with                    *)
(* link = [site, file], the absolute URL of the href on that site (the     *)
(* checksum is carried along unread and is left out).                      *)
(***************************************************************************)
DotJson == <<".", "j", "s", "o", "n">>

IsJsonName(s) == EndsWith(s, DotJson)

IsWhlName(s) == EndsWith(s, WhlSuffix)

\* fetch_links(url) of site, answered by resp
RECURSIVE ClassifyAnchors(_, _)
ClassifyAnchors(site, anchors) ==
    IF anchors = <<>> THEN Return(<<>>)
    ELSE
      LET a == Head(anchors)
          rest == ClassifyAnchors(site, Tail(anchors))
          link == [site |-> site, file |-> a.href]
      IN  IF ~(IsJsonName(a.href) \/ IsWhlName(a.href)) THEN rest
          ELSE IF ~(IsJsonName(a.text) \/ IsWhlName(a.text)) THEN Raise("ValueError")
          ELSE IF rest.raised THEN rest
          ELSE Return(<<[kind |-> IF IsJsonName(a.text) THEN "json" ELSE "whl",
                         name |-> a.text,
                         link |-> link]>> \o rest.value)

fetch_links(site, resp) ==
    IF resp.status # "ok" THEN Raise(resp.status)
    ELSE ClassifyAnchors(site, resp.body)

Wheels(artifacts) == SelectSeq(artifacts, LAMBDA a : a.kind = "whl")

Jsons(artifacts) == SelectSeq(artifacts, LAMBDA a : a.kind = "json")

\* KeepFallback with no look at variant_versions
KeepFallbackAll(extra, variant_versions) == Return(extra)

\* the loop of collect_all_links over the fallback listing: what is
\* appended, or the first exception
RECURSIVE KeepFallback(_, _)
KeepFallback(extra, variant_versions) ==
    IF extra = <<>> THEN Return(<<>>)
    ELSE
      LET a == Head(extra)
          rest == KeepFallback(Tail(extra), variant_versions)
      IN  IF a.kind = "json" THEN Raise("TypeError")
          ELSE IF NameVersionFails(a.name) THEN Raise("InvalidVersion")
          ELSE IF rest.raised THEN rest
          ELSE IF pkg_name_to_version(a.name) \in variant_versions THEN rest
          ELSE Return(<<a>> \o rest.value)

\* https://pypi.org/simple, the fallback index
PyPI == <<"p", "y", "p", "i">>

\* the exception classes contextlib.suppress(...) swallows around the
\* fallback scan
Suppressed == {"HTTPError"}

\* collect_all_links(pkgconfig): authResp answers the package's page on its
\* registry, pypiResp the page on pypi.org
collect_all_links(pkgconfig, authResp, pypiResp) ==
    LET own == fetch_links(pkgconfig.registry, authResp)
    IN  IF own.raised THEN own
        ELSE IF \E i \in 1..Len(own.value) :
                    own.value[i].kind = "whl" /\ NameVersionFails(own.value[i].name)
            THEN Raise("InvalidVersion")
        ELSE
          LET artifacts == own.value
              whl == Wheels(artifacts)
              variant_versions ==
                  {pkg_name_to_version(whl[i].name) : i \in 1..Len(whl)}
              other == fetch_links(PyPI, pypiResp)
              kept == IF other.raised THEN other
                      ELSE KeepFallback(other.value, variant_versions)
          IN  IF kept.raised
              THEN IF kept.exc \in Suppressed THEN Return(artifacts) ELSE kept
              ELSE Return(artifacts \o kept.value)

(***************************************************************************)
(* Index Reconciler: the pieces of generate_project_index.                 *)
(***************************************************************************)
\* sorted(..., key=lambda x: x.name): stable, ascending
RECURSIVE InsertByName(_, _)
InsertByName(sorted, a) ==
    IF sorted = <<>> THEN <<a>>
    ELSE IF StrLess(a.name, Head(sorted).name) THEN <<a>> \o sorted
    ELSE <<Head(sorted)>> \o InsertByName(Tail(sorted), a)

RECURSIVE SortedByName(_)
SortedByName(arts) ==
    IF arts = <<>> THEN <<>>
    ELSE InsertByName(SortedByName(SubSeq(arts, 1, Len(arts) - 1)), arts[Len(arts)])

Sep == <<" ", ":", ":", " ">>

\* the comprehension of lines 305-308 for one variant: namespaces, then
\* features, then values, each in the order the dict holds them
RECURSIVE FlattenValues(_, _, _)
FlattenValues(ns, feat, values) ==
    IF values = <<>> THEN <<>>
    ELSE <<ns \o Sep \o feat \o Sep \o Head(values)>>
         \o FlattenValues(ns, feat, Tail(values))

RECURSIVE FlattenFeatures(_, _)
FlattenFeatures(ns, feats) ==
    IF feats = <<>> THEN <<>>
    ELSE FlattenValues(ns, Head(feats)[1], Head(feats)[2])
         \o FlattenFeatures(ns, Tail(feats))

RECURSIVE FlattenVariant(_)
FlattenVariant(variant_data) ==
    IF variant_data = <<>> THEN <<>>
    ELSE FlattenFeatures(Head(variant_data)[1], Head(variant_data)[2])
         \o FlattenVariant(Tail(variant_data))

\* the dict of lines 303-311: variant alias -> flattened properties
FlattenVariants(variant_info) ==
    [alias \in {variant_info[i][1] : i \in 1..Len(variant_info)} |->
        FlattenVariant(Get(variant_info, alias))]

\* the sort key of line 334 and of line 350
KeyLess(n1, n2) ==
    LET v1 == pkg_name_to_version(n1)
        v2 == pkg_name_to_version(n2)
    IN  IF v1 = v2 THEN StrLess(n1, n2) ELSE VersionLess(v1, v2)

\* InsertDescending leaving the wheels as they came
InsertUnsorted(sorted, a) == Append(sorted, a)

\* sorted(..., key=..., reverse=True): descending, equal keys keep their order
RECURSIVE InsertDescending(_, _)
InsertDescending(sorted, a) ==
    IF sorted = <<>> THEN <<a>>
    ELSE IF KeyLess(Head(sorted).name, a.name) THEN <<a>> \o sorted
    ELSE <<Head(sorted)>> \o InsertDescending(Tail(sorted), a)

RECURSIVE SortedDescending(_)
SortedDescending(arts) ==
    IF arts = <<>> THEN <<>>
    ELSE InsertDescending(SortedDescending(SubSeq(arts, 1, Len(arts) - 1)),
                          arts[Len(arts)])

\* IsKept without its "not artifact.variant_alias or"
IsKeptByVersionOnly(artifact, variant_configs) ==
    VARIANT_WHL_FILE_REGEX(artifact.name).ver \in DOMAIN variant_configs

\* the condition of lines 330-331 for a wheel
IsKept(artifact, variant_configs) ==
    LET m == VARIANT_WHL_FILE_REGEX(artifact.name)
    IN  m.variant_label = NoLabel \/ m.ver \in DOMAIN variant_configs

\* augment_wheel_variant(artifact)
augment_wheel_variant(artifact, variant_configs) ==
    LET m == VARIANT_WHL_FILE_REGEX(artifact.name)
    IN  [kind |-> "whl", name |-> artifact.name, link |-> artifact.link,
         vprops |-> IF m.variant_label # NoLabel
                    THEN variant_configs[m.ver][m.variant_label]
                    ELSE <<>>]

\* the list comprehension of lines 326-333, artifact by artifact: the
\* augmented wheels, or the first exception (re_match finding no match,
\* the document having no entry for the wheel's label)
RECURSIVE AugmentAll(_, _)
AugmentAll(arts, variant_configs) ==
    IF arts = <<>> THEN Return(<<>>)
    ELSE
      LET a == Head(arts)
          m == VARIANT_WHL_FILE_REGEX(a.name)
          rest == AugmentAll(Tail(arts), variant_configs)
      IN  IF a.kind # "whl" THEN rest
          ELSE IF ~m.ok THEN Raise("ValueError")
          ELSE IF ~IsKept(a, variant_configs) THEN rest
          ELSE IF m.variant_label # NoLabel
                  /\ m.variant_label \notin DOMAIN variant_configs[m.ver]
              THEN Raise("KeyError")
          ELSE IF rest.raised THEN rest
          ELSE Return(<<augment_wheel_variant(a, variant_configs)>> \o rest.value)

\* lines 325-336
WheelFiles(artifacts, variant_configs) ==
    LET got == AugmentAll(artifacts, variant_configs)
    IN  IF got.raised THEN got ELSE Return(SortedDescending(got.value))

(***************************************************************************)
(* main.py and the build tree.                                             *)
(*   build.exists   BUILD_DIR is a directory                               *)
(*   build.index    BUILD_DIR/index.html                                   *)
(*   build.dirs     package name -> [files, index]: the package's          *)
(*                  directory, its cached documents by file name and its   *)
(*                  index.html                                             *)
(***************************************************************************)
NoFile == [written |-> FALSE]

NoFiles == [k \in {} |-> NoFile]

NoDirs == [k \in {} |-> NoFile]

EmptyBuild == [exists |-> TRUE, index |-> NoFile, dirs |-> NoDirs]

\* Declare with no look at the names already declared
DeclareAll(packages, decls) == Return(packages \o decls)

\* the validation loop of main.py lines 25-37 over the (registry, package)
\* pairs in declaration order: the first repeated name raises
RECURSIVE Declare(_, _)
Declare(packages, decls) ==
    IF decls = <<>> THEN Return(packages)
    ELSE IF \E i \in 1..Len(packages) : packages[i].name = Head(decls).name
         THEN Raise("ValueError")
    ELSE Declare(Append(packages, Head(decls)), Tail(decls))

RECURSIVE Declarations(_)
Declarations(config) ==
    IF config = <<>> THEN <<>>
    ELSE [i \in 1..Len(Head(config).packages) |->
             [name |-> Head(config).packages[i], registry |-> Head(config).registry]]
         \o Declarations(Tail(config))

\* generate_main_index(packages): the directories the template is given
MainIndex(packages, b) ==
    LET filtered == SelectSeq(packages, LAMBDA p : p.name \in DOMAIN b.dirs)
        ordered == SortedByName(filtered)
    IN  [written |-> TRUE, directories |-> [i \in 1..Len(ordered) |-> ordered[i].name]]

\* the write of load_variant_json and of lines 357-361 into the package's
\* directory, made on the way (mkdir(exist_ok=True, parents=True))
DirOf(b, name) ==
    IF name \in DOMAIN b.dirs THEN b.dirs[name] ELSE [files |-> NoFiles, index |-> NoFile]

WithDir(b, name, dir) ==
    [b EXCEPT !.dirs = [n \in DOMAIN b.dirs \cup {name} |->
                           IF n = name THEN dir ELSE b.dirs[n]]]

\* lines 345-352: the cached documents of the package's directory, as the
\* template gets them; the sort key raises on a file name without a version
CachedJsonFiles(dir) ==
    LET names == {k \in DOMAIN dir.files : IsJsonName(k)}
        asSeq == CHOOSE q \in [1..Cardinality(names) -> names] :
                     \A i, j \in 1..Cardinality(names) : i # j => q[i] # q[j]
        arts == [i \in 1..Len(asSeq) |-> [name |-> asSeq[i]]]
    IN  IF \E k \in names : NameVersionFails(k) THEN Raise("InvalidVersion")
        ELSE LET ordered == SortedDescending(arts)
             IN  Return([i \in 1..Len(ordered) |-> ordered[i].name])

(***************************************************************************)
(* The inputs: index.toml files, listing pages and documents.              *)
(***************************************************************************)
PkgA == <<"a">>

PkgB == <<"b">>

Registry(i) == <<"r", Digits[i + 1]>>

\* the package lists an index of index.toml declares
PackageLists == {<<PkgA>>, <<PkgB, PkgA>>}

RECURSIVE ConfigsOfLength(_)
ConfigsOfLength(n) ==
    IF n = 0 THEN {<<>>}
    ELSE {Append(c, [registry |-> Registry(n), packages |-> l]) :
              c \in ConfigsOfLength(n - 1), l \in PackageLists}

Configs == UNION {ConfigsOfLength(n) : n \in 1..MaxIndexes}

Pkg == <<"p", "k", "g">>

Tags == <<"-", "p", "y", "3", "-", "n", "o", "n", "e", "-", "a", "n", "y">>

V10 == <<"1", ".", "0">>

V15 == <<"1", ".", "5">>

V150 == <<"1", ".", "5", ".", "0">>

V20 == <<"2", ".", "0">>

LabelZZ == <<"z", "z">>

LabelAB == <<"a", "b">>

LabelABCD == <<"a", "b", "c", "d">>

WheelName(ver, label) ==
    Pkg \o <<"-">> \o ver \o Tags
        \o (IF label = NoLabel THEN <<>> ELSE <<"-">> \o label) \o WhlSuffix

JsonName(prefix, ver) == prefix \o <<"-">> \o ver \o <<"-">> \o JsonSuffix

Anchor(text, href) == [text |-> text, href |-> href]

\* the anchors a registry page is made of, in the order the page lists them
AuthAnchors ==
    <<Anchor(WheelName(V15, LabelZZ), WheelName(V15, LabelZZ)),
      Anchor(JsonName(Pkg, V20), JsonName(Pkg, V15)),
      Anchor(WheelName(V15, NoLabel), WheelName(V15, NoLabel)),
      Anchor(JsonName(Pkg, V15), JsonName(Pkg, V15)),
      Anchor(WheelName(V10, LabelABCD), WheelName(V10, LabelABCD)),
      Anchor(WheelName(V20, NoLabel), WheelName(V20, NoLabel)),
      Anchor(JsonName(<<"a", "l", "t">>, V15), JsonName(<<"a", "l", "t">>, V15)),
      Anchor(Pkg \o <<"-">> \o V10 \o <<"-", "a", "n", "y">> \o WhlSuffix,
             Pkg \o <<"-">> \o V10 \o <<"-", "a", "n", "y">> \o WhlSuffix)>>

\* the anchors of a pypi.org page
PyPIAnchors ==
    <<Anchor(WheelName(V150, NoLabel), WheelName(V150, NoLabel)),
      Anchor(WheelName(V20, NoLabel), WheelName(V20, NoLabel)),
      Anchor(JsonName(Pkg, V15), JsonName(Pkg, V15))>>

\* the pages of at most n anchors taken from pool, in the pool's order
RECURSIVE Pick(_, _)
Pick(pool, idx) ==
    IF idx = {} THEN <<>>
    ELSE LET i == CHOOSE k \in idx : \A j \in idx : k <= j
         IN  <<pool[i]>> \o Pick(pool, idx \ {i})

Pages(pool, n) ==
    {Pick(pool, idx) : idx \in {x \in SUBSET (1..Len(pool)) : Cardinality(x) <= n}}

Ok(body) == [status |-> "ok", body |-> body]

Failed(exc) == [status |-> exc]

ListingResponses(pool, n) ==
    {Ok(page) : page \in Pages(pool, n)} \cup {Failed(f) : f \in TransportFailures}

\* what a registry may answer while n more anchors may be served
AuthResponses == [n \in 0..MaxArtifacts |-> ListingResponses(AuthAnchors, n)]

PyPIResponses == ListingResponses(PyPIAnchors, MaxFallback)

NsA == <<"a">>

NsZ == <<"z">>

FeatF == <<"f">>

FeatG == <<"g">>

ValV == <<"v">>

ValW == <<"w">>

\* {"zz": {"z": {"g": ["w", "v"], "f": ["v"]}, "a": {"f": ["v"]}}}
VariantsZZ ==
    <<<<LabelZZ,
        <<<<NsZ, <<<<FeatG, <<ValW, ValV>>>>, <<FeatF, <<ValV>>>>>>>>,
          <<NsA, <<<<FeatF, <<ValV>>>>>>>>>>>>>>

\* {"ab": {"a": {"f": ["v"]}}}
VariantsAB == <<<<LabelAB, <<<<NsA, <<<<FeatF, <<ValV>>>>>>>>>>>>>>

\* {"z": {"g": ["w"], "f": ["v", "w"]}}
PropertyZ == <<<<NsZ, <<<<FeatG, <<ValW>>>>, <<FeatF, <<ValV, ValW>>>>>>>>>>

DocV3 ==
    [schema |-> V3Schema,
     default_priorities |-> [namespace |-> <<NsZ, NsA>>],
     providers |-> <<<<NsZ, [install_time |-> FALSE]>>>>,
     variants |-> VariantsZZ]

DocV2 ==
    [schema |-> V2Schema,
     default_priorities |-> [namespace |-> <<NsZ>>, property |-> PropertyZ],
     providers |-> <<<<NsZ, [plugin_use |-> "build"]>>, <<NsA, [optional |-> TRUE]>>>>,
     variants |-> VariantsAB]

DocRoot == [DocV2 EXCEPT !.schema = RootSchema, !.variants = VariantsZZ]

DocV4 == [DocV3 EXCEPT !.schema = V4Schema]

DocForeign == [schema |-> ForeignSchema, variants |-> VariantsZZ]

DocNoVariants == [schema |-> ForeignSchema]

DocInvalid == [DocV3 EXCEPT !.default_priorities = [namespace |-> <<>>]]

DocNoSchema == [variants |-> VariantsZZ]

DocPool ==
    {DocV3, DocV2, DocRoot, DocV4, DocForeign, DocNoVariants, DocInvalid, DocNoSchema}

DocResponses == {Ok(d) : d \in DocPool} \cup {Failed(f) : f \in {"HTTPError", "Timeout"}}

(***************************************************************************)
(* The run of main.py.                                                     *)
(***************************************************************************)
VARIABLES
    pc,                  \* where main.py is: "validate", "clean", "main_index",
                         \* "packages", "done", or "aborted" by an exception
    config,              \* config["index"] of index.toml
    packages,            \* the dict of main.py line 21, in insertion order
    build,               \* the BUILD_DIR tree
    todo,                \* the packages the loop of line 45 has yet to visit
    gp,                  \* where generate_project_index is: "idle", "collect",
                         \* "documents", "returned"
    pkg_config,          \* its argument
    artifacts,           \* line 278
    variants_json_files, \* line 280, the part the loop of line 287 has ahead
    variant_configs,     \* line 285
    wheel_files,         \* line 325
    error,               \* the exception that ended the run, or "none"
    fetched,             \* history: the GETs made, in order
    listed,              \* history: the anchors the registries' pages held so far
    pages,               \* history: what the two listing pages of this package
                         \* answered
    loads,               \* history: the load_variant_json calls of this package
    outcomes,            \* history: package name -> how its call ended
    mig                  \* a v0.0.2 document and what to_v0_0_3 makes of it

vars ==
    <<pc, config, packages, build, todo, gp, pkg_config, artifacts,
      variants_json_files, variant_configs, wheel_files, error, fetched, listed,
      pages, loads, outcomes, mig>>

locals == <<artifacts, variants_json_files, variant_configs, wheel_files>>

NoPackage == [name |-> <<>>, registry |-> <<>>]

NoConfigs == [v \in {} |-> <<>>]

NoOutcomes == [n \in {} |-> "none"]

NotAsked == [status |-> "none"]

NoPages == [auth |-> NotAsked, pypi |-> NotAsked]

NoMigration == [stage |-> "off"]

\* a tree a previous run left behind
StaleBuild ==
    [exists |-> TRUE,
     index |-> [written |-> TRUE, directories |-> <<PkgA>>],
     dirs |-> [n \in {PkgA} |->
                  [files |-> NoFiles,
                   index |-> [written |-> TRUE, variants_json_files |-> <<>>,
                              wheel_variant_files |-> <<>>]]]]

Init ==
    /\ pc = "validate"
    /\ config \in Configs
    /\ packages = <<>>
    /\ build \in {[exists |-> FALSE, index |-> NoFile, dirs |-> NoDirs], StaleBuild}
    /\ todo = <<>>
    /\ gp = "idle"
    /\ pkg_config = NoPackage
    /\ artifacts = <<>>
    /\ variants_json_files = <<>>
    /\ variant_configs = NoConfigs
    /\ wheel_files = <<>>
    /\ error = "none"
    /\ fetched = <<>>
    /\ listed = 0
    /\ pages = NoPages
    /\ loads = <<>>
    /\ outcomes = NoOutcomes
    /\ mig = NoMigration

\* an exception nobody catches ends the run
Abort(exc) ==
    /\ pc' = "aborted"
    /\ error' = exc

Outcome(name, how) ==
    [n \in DOMAIN outcomes \cup {name} |-> IF n = name THEN how ELSE outcomes[n]]

\* main.py lines 21-37
Validate ==
    /\ pc = "validate"
    /\ LET r == Declare(<<>>, Declarations(config))
       IN  IF r.raised
           THEN /\ Abort(r.exc)
                /\ UNCHANGED packages
           ELSE /\ pc' = "clean"
                /\ packages' = r.value
                /\ UNCHANGED error
    /\ UNCHANGED <<config, build, todo, gp, pkg_config, locals, fetched, listed,
                   pages, loads, outcomes, mig>>

\* main.py lines 39-41: rmtree(BUILD_DIR), mkdir
CleanBuild ==
    /\ pc = "clean"
    /\ build' = EmptyBuild
    /\ pc' = "main_index"
    /\ UNCHANGED <<config, packages, todo, gp, pkg_config, locals, error, fetched,
                   listed, pages, loads, outcomes, mig>>

\* main.py line 43, and the sorted(...) of line 45
GenerateMainIndex ==
    /\ pc = "main_index"
    /\ build' = [build EXCEPT !.index = MainIndex(packages, build)]
    /\ todo' = SortedByName(packages)
    /\ pc' = "packages"
    /\ UNCHANGED <<config, packages, gp, pkg_config, locals, error, fetched, listed,
                   pages, loads, outcomes, mig>>

\* main.py lines 45-46: the next call of generate_project_index
NextPackage ==
    /\ pc = "packages"
    /\ gp \in {"idle", "returned"}
    /\ todo # <<>>
    /\ pkg_config' = Head(todo)
    /\ todo' = Tail(todo)
    /\ gp' = "collect"
    /\ artifacts' = <<>>
    /\ variants_json_files' = <<>>
    /\ variant_configs' = NoConfigs
    /\ wheel_files' = <<>>
    /\ pages' = NoPages
    /\ loads' = <<>>
    /\ UNCHANGED <<pc, config, packages, build, error, fetched, listed, outcomes, mig>>

\* main.py: the loop is over
Finish ==
    /\ pc = "packages"
    /\ gp \in {"idle", "returned"}
    /\ todo = <<>>
    /\ pc' = "done"
    /\ UNCHANGED <<config, packages, build, todo, gp, pkg_config, locals, error,
                   fetched, listed, pages, loads, outcomes, mig>>

\* whether collect_all_links gets as far as asking pypi.org
AsksFallback(pkgconfig, authResp) ==
    LET own == fetch_links(pkgconfig.registry, authResp)
    IN  /\ ~own.raised
        /\ \A i \in 1..Len(own.value) :
              own.value[i].kind = "whl" => ~NameVersionFails(own.value[i].name)

PageSize(resp) == IF resp.status = "ok" THEN Len(resp.body) ELSE 0

\* the v0.0.2 documents to_v0_0_3 is applied to
PrioritiesPool ==
    {[namespace |-> ns] : ns \in {<<NsZ>>, <<NsZ, NsA>>}}
    \cup {[namespace |-> ns, property |-> p] :
             ns \in {<<NsZ>>, <<NsA, NsZ>>},
             p \in {<<>>, PropertyZ, PropertyZ \o <<<<NsA, <<<<FeatF, <<>>>>>>>>>>}}
    \cup {[namespace |-> <<NsA>>, feature |-> <<<<NsA, <<FeatG, FeatF>>>>>>,
           property |-> PropertyZ]}

ProvidersPool ==
    {<<>>,
     <<<<NsZ, [plugin_use |-> "build"]>>, <<NsA, [optional |-> TRUE]>>>>,
     <<<<NsA, [plugin_use |-> "all", plugin_api |-> "m:P"]>>>>}

VariantsPool == {<<>>, VariantsZZ, VariantsAB, VariantsZZ \o VariantsAB}

LegacyDocs ==
    {[schema |-> V2Schema, default_priorities |-> dp, providers |-> pr, variants |-> v] :
        dp \in PrioritiesPool, pr \in ProvidersPool, v \in VariantsPool}

\* generate_project_index lines 278-285: the listing pages are fetched
CollectAllLinks ==
    /\ pc = "packages"
    /\ gp = "collect"
    /\ \E authResp \in AuthResponses[MaxArtifacts - listed] :
       \E pypiResp \in PyPIResponses :
          LET r == collect_all_links(pkg_config, authResp, pypiResp)
              both == AsksFallback(pkg_config, authResp)
              served == PageSize(authResp)
          IN  /\ served <= MaxArtifacts - listed
              /\ listed' = listed + served
              /\ pages' = [auth |-> authResp,
                           pypi |-> IF both THEN pypiResp ELSE NotAsked]
              /\ fetched' = fetched \o (IF both THEN <<"listing", "fallback">>
                                        ELSE <<"listing">>)
              /\ IF r.raised
                 THEN /\ Abort(r.exc)
                      /\ outcomes' = Outcome(pkg_config.name, "error")
                      /\ UNCHANGED <<gp, artifacts, variants_json_files>>
                 ELSE /\ artifacts' = r.value
                      /\ variants_json_files' = SortedByName(Jsons(r.value))
                      /\ gp' = "documents"
                      /\ UNCHANGED <<pc, error, outcomes>>
    /\ UNCHANGED <<config, packages, build, todo, pkg_config, variant_configs,
                   wheel_files, loads, mig>>

\* AlreadyExists never finding the version
AlreadyExistsNever(version, configs) == FALSE

\* line 288: the version already has its document
AlreadyExists(version, configs) == version \in DOMAIN configs

\* one entry of loads: the document artifact, whether the cache answered,
\* what the network answered if it was asked, and how the turn ended:
\* "refused" (lines 288-292), "skipped" (lines 296-298), "raised", "loaded"
Load(artifact, hit, resp, outcome) ==
    [name |-> artifact.name, link |-> artifact.link, hit |-> hit,
     resp |-> IF hit \/ outcome = "refused" THEN NotAsked ELSE resp,
     outcome |-> outcome]

\* generate_project_index lines 287-311: one turn of the loop over the
\* variant documents; a document whose cache file exists is answered by the
\* file, with no GET
LoadVariantDocument ==
    /\ pc = "packages"
    /\ gp = "documents"
    /\ variants_json_files # <<>>
    /\ LET vjson_f == Head(variants_json_files)
           m == VARIANT_JSON_FILE_REGEX(vjson_f.name)
           dir == DirOf(build, pkg_config.name)
       IN  IF ~m.ok \/ AlreadyExists(m.ver, variant_configs)
           THEN /\ Abort("ValueError")
                /\ outcomes' = Outcome(pkg_config.name, "error")
                /\ loads' = Append(loads, Load(vjson_f, FALSE, NotAsked, "refused"))
                /\ UNCHANGED <<build, gp, variants_json_files, variant_configs, fetched>>
           ELSE \E resp \in IF vjson_f.link.file \in DOMAIN dir.files
                              THEN {NotAsked} ELSE DocResponses :
                \E sch \in IF AsksSchema(resp) THEN SchemaOutcomes ELSE {"valid"} :
                LET l == load_variant_json(vjson_f.link, dir.files, resp, sch)
                    caught == l.result.raised
                              /\ l.result.exc = "VariantVersionNotSupportedError"
                    thrown == IF l.result.raised THEN l.result.exc
                              ELSE IF ~Has(l.result.value, "variants") THEN "ValueError"
                              ELSE "none"
                IN  /\ build' = IF l.files = dir.files THEN build
                                 ELSE WithDir(build, pkg_config.name,
                                              [dir EXCEPT !.files = l.files])
                    /\ fetched' = IF l.hit THEN fetched
                                   ELSE fetched \o DownloadFetches(resp)
                    /\ IF caught
                       THEN /\ variants_json_files' = Tail(variants_json_files)
                            /\ loads' = Append(loads, Load(vjson_f, l.hit, resp, "skipped"))
                            /\ UNCHANGED <<pc, error, gp, variant_configs, outcomes>>
                       ELSE IF thrown # "none"
                       THEN /\ Abort(thrown)
                            /\ outcomes' = Outcome(pkg_config.name, "error")
                            /\ loads' = Append(loads, Load(vjson_f, l.hit, resp, "raised"))
                            /\ UNCHANGED <<gp, variants_json_files, variant_configs>>
                       ELSE /\ variant_configs' =
                                 [v \in DOMAIN variant_configs \cup {m.ver} |->
                                     IF v = m.ver
                                     THEN FlattenVariants(l.result.value.variants)
                                     ELSE variant_configs[v]]
                            /\ variants_json_files' = Tail(variants_json_files)
                            /\ loads' = Append(loads, Load(vjson_f, l.hit, resp, "loaded"))
                            /\ UNCHANGED <<pc, error, gp, outcomes>>
    /\ UNCHANGED <<config, packages, todo, pkg_config, artifacts, wheel_files, listed,
                   pages, mig>>

\* generate_project_index lines 313-361: the wheels are filtered, augmented
\* and sorted, and the page is written unless there is none
ReconcileWheels ==
    /\ pc = "packages"
    /\ gp = "documents"
    /\ variants_json_files = <<>>
    /\ LET w == WheelFiles(artifacts, variant_configs)
           dir == DirOf(build, pkg_config.name)
           jsons == CachedJsonFiles(dir)
       IN  IF w.raised \/ (w.value # <<>> /\ jsons.raised)
           THEN /\ Abort(IF w.raised THEN w.exc ELSE jsons.exc)
                /\ outcomes' = Outcome(pkg_config.name, "error")
                /\ wheel_files' = IF w.raised THEN wheel_files ELSE w.value
                /\ UNCHANGED <<build, gp>>
           ELSE /\ wheel_files' = w.value
                /\ gp' = "returned"
                /\ UNCHANGED <<pc, error>>
                /\ IF w.value = <<>>
                   THEN /\ outcomes' = Outcome(pkg_config.name, "noindex")
                        /\ UNCHANGED build
                   ELSE /\ outcomes' = Outcome(pkg_config.name, "index")
                        /\ build' = WithDir(build, pkg_config.name,
                              [dir EXCEPT !.index =
                                  [written |-> TRUE,
                                   variants_json_files |-> jsons.value,
                                   wheel_variant_files |-> w.value]])
    /\ UNCHANGED <<config, packages, todo, pkg_config, artifacts, variants_json_files,
                   variant_configs, fetched, listed, pages, loads, mig>>

Next ==
    \/ Validate
    \/ CleanBuild
    \/ GenerateMainIndex
    \/ NextPackage
    \/ CollectAllLinks
    \/ LoadVariantDocument
    \/ ReconcileWheels
    \/ Finish

Spec == Init /\ [][Next]_vars

(***************************************************************************)
(* The migration on its own: download_json lines 229-231 for a document    *)
(* that says v0.0.2.                                                       *)
(***************************************************************************)
InitMigrate ==
    /\ pc = "off"
    /\ config = <<>>
    /\ packages = <<>>
    /\ build = EmptyBuild
    /\ todo = <<>>
    /\ gp = "idle"
    /\ pkg_config = NoPackage
    /\ artifacts = <<>>
    /\ variants_json_files = <<>>
    /\ variant_configs = NoConfigs
    /\ wheel_files = <<>>
    /\ error = "none"
    /\ fetched = <<>>
    /\ listed = 0
    /\ pages = NoPages
    /\ loads = <<>>
    /\ outcomes = NoOutcomes
    /\ mig \in {[stage |-> "fetched", data |-> d] : d \in LegacyDocs}

Migrate ==
    /\ mig.stage = "fetched"
    /\ ValidV2(mig.data)
    /\ mig' = [stage |-> "migrated", data |-> mig.data,
               dumped |-> to_v0_0_3(ModelV2(mig.data))]
    /\ UNCHANGED <<pc, config, packages, build, todo, gp, pkg_config, locals, error,
                   fetched, listed, pages, loads, outcomes>>

NextMigrate == Migrate

SpecMigrate == InitMigrate /\ [][NextMigrate]_vars

(***************************************************************************)
(* What the claims say, in terms of the run.                               *)
(***************************************************************************)
\* generate_project_index has returned for pkg_config
Returned == gp = "returned"

LabelOf(name) == VARIANT_WHL_FILE_REGEX(name).variant_label

WheelVersionOf(name) == VARIANT_WHL_FILE_REGEX(name).ver

DocVersionOf(name) == VARIANT_JSON_FILE_REGEX(name).ver

\* the versions whose variant document was loaded in this call
LoadedVersions ==
    {DocVersionOf(loads[i].name) :
        i \in {k \in 1..Len(loads) : loads[k].outcome = "loaded"}}

InWheelFiles(a) == \E j \in 1..Len(wheel_files) : wheel_files[j].name = a.name

\* C1: a wheel with a variant label whose version has no loaded variant
\* document is left out of the final wheel list, and no exception comes of
\* it (the comprehension raises KeyError only for a labelled wheel whose
\* version does have a document); a wheel without a label is in the final
\* list with vprops = [], whether or not its version has a document.
C1_PlainKeptLabelledDropped ==
    /\ Returned =>
          \A i \in 1..Len(artifacts) :
             LET a == artifacts[i]
             IN  a.kind = "whl" =>
                   /\ (LabelOf(a.name) # NoLabel
                         /\ WheelVersionOf(a.name) \notin LoadedVersions)
                      => ~InWheelFiles(a)
                   /\ LabelOf(a.name) = NoLabel
                      => \E j \in 1..Len(wheel_files) :
                            /\ wheel_files[j].name = a.name
                            /\ wheel_files[j].link = a.link
                            /\ wheel_files[j].vprops = <<>>
    /\ (pc = "aborted" /\ error = "KeyError" /\ gp = "documents"
           /\ variants_json_files = <<>>)
       => \E i \in 1..Len(artifacts) :
             /\ artifacts[i].kind = "whl"
             /\ LabelOf(artifacts[i].name) # NoLabel
             /\ WheelVersionOf(artifacts[i].name) \in LoadedVersions

\* C1 happens: no document was loaded, the labelled wheel is left out and
\* the plain one is listed with no properties
C1_Witness ==
    /\ Returned
    /\ LoadedVersions = {}
    /\ \E i \in 1..Len(artifacts) :
          /\ artifacts[i].name = WheelName(V15, LabelZZ)
          /\ ~InWheelFiles(artifacts[i])
    /\ \E j \in 1..Len(wheel_files) :
          /\ wheel_files[j].name = WheelName(V15, NoLabel)
          /\ wheel_files[j].vprops = <<>>

\* the variant documents among the artifacts, in the order the loop takes them
DocumentsInOrder == SortedByName(Jsons(artifacts))

SameVersionPair(docs, i, j) ==
    i < j /\ DocVersionOf(docs[i].name) = DocVersionOf(docs[j].name)

IndexWritten(name) == name \in DOMAIN build.dirs /\ build.dirs[name].index.written

\* C2 as claimed: two variant documents of one version among the artifacts
\* always end the call with a fatal error, so the call never returns.
C2_DuplicateAlwaysFatal ==
    Returned =>
       \A i, j \in 1..Len(DocumentsInOrder) : ~SameVersionPair(DocumentsInOrder, i, j)

\* C2 amended: of two variant documents of one version, the call survives
\* the pair only if the one that sorts first by file name was skipped for
\* its unsupported schema revision; otherwise it ends with a fatal error
\* and writes no package index.
C2_DuplicateFatalUnlessSkipped ==
    /\ Returned =>
          /\ Len(loads) = Len(DocumentsInOrder)
          /\ \A i \in 1..Len(loads) : loads[i].name = DocumentsInOrder[i].name
          /\ \A i, j \in 1..Len(loads) :
                SameVersionPair(DocumentsInOrder, i, j) => loads[i].outcome = "skipped"
    /\ (pc = "aborted" /\ gp # "idle") => ~IndexWritten(pkg_config.name)

\* C2 happens: the second document of a version is refused and the run ends
C2_Witness ==
    /\ pc = "aborted"
    /\ error = "ValueError"
    /\ Len(loads) = 2
    /\ loads[1].outcome = "loaded"
    /\ loads[2].outcome = "refused"
    /\ DocVersionOf(loads[1].name) = DocVersionOf(loads[2].name)
    /\ ~IndexWritten(pkg_config.name)

\* the file names of the final wheel list, in its order
WheelFileNames == [i \in 1..Len(wheel_files) |-> wheel_files[i].name]

\* (parsed version, file name) of n1 is above that of n2
KeyAbove(n1, n2) ==
    LET v1 == pkg_name_to_version(n1)
        v2 == pkg_name_to_version(n2)
    IN  \/ VersionLess(v2, v1)
        \/ v1 = v2 /\ StrLess(n2, n1)

\* wheel_files is in descending order of (parsed version, file name)
DescendingByVersionThenName ==
    \A i, j \in 1..Len(wheel_files) :
       (i < j /\ wheel_files[i].name # wheel_files[j].name)
          => KeyAbove(wheel_files[i].name, wheel_files[j].name)

\* the final list is made of the three wheels pkg-2.0, pkg-1.5, pkg-1.5-zz
SortingExample ==
    /\ Returned
    /\ Len(wheel_files) = 3
    /\ {wheel_files[i].name : i \in 1..3} =
          {WheelName(V20, NoLabel), WheelName(V15, NoLabel), WheelName(V15, LabelZZ)}

\* C3 as claimed: the final wheel list is descending by (parsed version,
\* file name), and pkg-2.0, pkg-1.5, pkg-1.5-zz come out as [2.0, 1.5-zz, 1.5].
C3_ExampleLabelledFirst ==
    /\ DescendingByVersionThenName
    /\ SortingExample =>
          WheelFileNames = <<WheelName(V20, NoLabel), WheelName(V15, LabelZZ),
                             WheelName(V15, NoLabel)>>

\* C3 amended: the final wheel list is descending by (parsed version, file
\* name), file names compared as strings, so that pkg-2.0, pkg-1.5,
\* pkg-1.5-zz come out as [2.0, 1.5, 1.5-zz]: "any.whl" is above "any-zz.whl"
\* because "." is above "-".
C3_ExamplePlainFirst ==
    /\ DescendingByVersionThenName
    /\ SortingExample =>
          WheelFileNames = <<WheelName(V20, NoLabel), WheelName(V15, NoLabel),
                             WheelName(V15, LabelZZ)>>

\* C3 happens: the three wheels of the example are the final list
C3_Witness ==
    /\ SortingExample
    /\ wheel_files[3].name = WheelName(V15, LabelZZ)
    /\ wheel_files[3].vprops # <<>>

\* collect_all_links has returned for pkg_config
Collected == gp \in {"documents", "returned"}

IsArtifactHref(a) == IsJsonName(a.href) \/ IsWhlName(a.href)

\* the (parsed) versions of the wheels the authoritative page lists
AuthoritativeVersions ==
    {pkg_name_to_version(pages.auth.body[i].text) :
        i \in {k \in 1..Len(pages.auth.body) : IsWhlName(pages.auth.body[k].text)}}

FromSite(site, a) ==
    \E i \in 1..Len(artifacts) :
       /\ artifacts[i].name = a.text
       /\ artifacts[i].link = [site |-> site, file |-> a.href]

\* C4: once collect_all_links has returned, every artifact of the
\* authoritative page is among the artifacts, and a wheel of the pypi.org
\* page is among them exactly when no authoritative wheel has its version.
C4_AuthoritativeWins ==
    Collected =>
       /\ \A i \in 1..Len(pages.auth.body) :
             IsArtifactHref(pages.auth.body[i])
                => FromSite(pkg_config.registry, pages.auth.body[i])
       /\ pages.pypi.status = "ok" =>
             \A i \in 1..Len(pages.pypi.body) :
                LET a == pages.pypi.body[i]
                IN  IsWhlName(a.text) =>
                       (FromSite(PyPI, a)
                          <=> pkg_name_to_version(a.text) \notin AuthoritativeVersions)

\* C4 happens: pypi.org lists 1.5.0, which the registry has as 1.5
C4_Witness ==
    /\ Collected
    /\ pages.pypi.status = "ok"
    /\ pages.pypi.body = <<Anchor(WheelName(V150, NoLabel), WheelName(V150, NoLabel))>>
    /\ \E i \in 1..Len(artifacts) :
          /\ artifacts[i].name = WheelName(V15, NoLabel)
          /\ artifacts[i].link.site = pkg_config.registry
    /\ \A i \in 1..Len(artifacts) : artifacts[i].link.site # PyPI

\* the artifacts the authoritative page gives
AuthoritativeOnly ==
    /\ \A i \in 1..Len(artifacts) : artifacts[i].link.site = pkg_config.registry
    /\ Len(artifacts) =
          Cardinality({k \in 1..Len(pages.auth.body) : IsArtifactHref(pages.auth.body[k])})

\* C5 as claimed: a transport failure of the pypi.org listing, of whatever
\* kind, is swallowed, collect_all_links returning the authoritative
\* artifacts alone; a transport failure of the authoritative listing ends
\* the package's call with the exception.
C5_FallbackFailureSwallowed ==
    /\ pages.pypi.status \in TransportFailures => Collected /\ AuthoritativeOnly
    /\ pages.auth.status \in TransportFailures =>
          pc = "aborted" /\ gp = "collect" /\ error = pages.auth.status

\* a variant document whose $schema is none of the root URL, v0.0.2, v0.0.3
UnknownRevision(resp) ==
    /\ resp.status = "ok"
    /\ Has(resp.body, "schema")
    /\ resp.body.schema \notin {RootSchema, V2Schema, V3Schema}

\* C6 as claimed: a fetched variant document of an unknown revision is
\* skipped, the loop going on to the next document, and as long as it is the
\* last one fetched it has no cache file and no entry of the variant map.
C6_UnknownRevisionSkipped ==
    \A i \in 1..Len(loads) :
       UnknownRevision(loads[i].resp) =>
          /\ loads[i].outcome = "skipped"
          /\ i = Len(loads) =>
                /\ loads[i].link.file \notin DOMAIN DirOf(build, pkg_config.name).files
                /\ DocVersionOf(loads[i].name) \notin DOMAIN variant_configs

\* two of the declarations of index.toml give the same package name
DeclaredTwice ==
    \E i, j \in 1..Len(Declarations(config)) :
       i < j /\ Declarations(config)[i].name = Declarations(config)[j].name

\* C7: when two configured indexes (or one index twice) declare the same
\* package name, the run gets no further than the validation: it ends with
\* the ValueError, no GET was made, no package was processed, and the build
\* directory is as the run found it.
C7_UniquenessBeforeFetching ==
    DeclaredTwice =>
       /\ pc \in {"validate", "aborted"}
       /\ pc = "aborted" => error = "ValueError"
       /\ fetched = <<>>
       /\ gp = "idle"
       /\ outcomes = NoOutcomes
       /\ build \in {[exists |-> FALSE, index |-> NoFile, dirs |-> NoDirs], StaleBuild}

\* C7 happens: two indexes declare one name, the run has ended and the tree
\* of the previous run is still there
C7_Witness ==
    /\ DeclaredTwice
    /\ Len(config) = 2
    /\ pc = "aborted"
    /\ build = StaleBuild

\* C8 as claimed: a package whose call ended with an exception does not end
\* the run: when the run is over, every configured package after it in name
\* order has been processed too.
C8_RunContinuesAfterFailure ==
    pc \in {"done", "aborted"} =>
       \A i, j \in 1..Len(packages) :
          (/\ packages[i].name \in DOMAIN outcomes
           /\ outcomes[packages[i].name] = "error"
           /\ StrLess(packages[i].name, packages[j].name))
             => packages[j].name \in DOMAIN outcomes

\* to_v0_0_3 has been applied to the v0.0.2 document mig.data
Migrated == mig.stage = "migrated"

\* default-priorities.property of the v0.0.2 document ({} when left out)
LegacyProperty ==
    IF Has(mig.data.default_priorities, "property")
    THEN mig.data.default_priorities.property
    ELSE <<>>

LegacyFeature ==
    IF Has(mig.data.default_priorities, "feature")
    THEN mig.data.default_priorities.feature
    ELSE <<>>

\* static-properties is the legacy property map, and namespace, feature and
\* variants are what they were
PropertyMovedRestKept ==
    /\ Has(mig.dumped, "static_properties")
    /\ mig.dumped.static_properties = LegacyProperty
    /\ mig.dumped.default_priorities.namespace = mig.data.default_priorities.namespace
    /\ mig.dumped.default_priorities.feature = LegacyFeature
    /\ mig.dumped.variants = mig.data.variants

\* C9 as claimed: the migrated document has the legacy property map as its
\* static-properties, its default-priorities has no property field, and
\* namespace, feature and variants are unchanged.
C9_PropertyNotDuplicated ==
    Migrated =>
       /\ PropertyMovedRestKept
       /\ ~Has(mig.dumped.default_priorities, "property")

\* C9 amended: the migrated document has the legacy property map as its
\* static-properties, its default-priorities still has the property field
\* with the same content (the map is copied, not moved), and namespace,
\* feature and variants are unchanged.
C9_PropertyCopied ==
    Migrated =>
       /\ PropertyMovedRestKept
       /\ Has(mig.dumped.default_priorities, "property")
       /\ mig.dumped.default_priorities.property = LegacyProperty

\* C9 happens: a document with two features under a namespace is migrated
C9_Witness ==
    /\ Migrated
    /\ LegacyProperty = PropertyZ
    /\ mig.dumped.static_properties = PropertyZ
    /\ mig.data.variants # <<>>

\* the document as the server sent it, for the i-th load of this call: for
\* a load the cache answered, what the load that wrote the file was sent
SourceDocument(i) ==
    IF loads[i].hit
    THEN LET k == CHOOSE k \in 1..(i - 1) :
                     /\ loads[k].link.file = loads[i].link.file
                     /\ ~loads[k].hit
                     /\ loads[k].outcome = "loaded"
         IN  loads[k].resp.body
    ELSE loads[i].resp.body

\* C10 as claimed: for every loaded variant document, each label's list in
\* the variant map is the "ns :: feature :: value" enumeration of the source
\* document in the source's order, from a fresh fetch and from the cache
\* alike.
C10_SourceOrderPreserved ==
    \A i \in 1..Len(loads) :
       loads[i].outcome = "loaded" =>
          variant_configs[DocVersionOf(loads[i].name)]
             = FlattenVariants(SourceDocument(i).variants)

\* the step is a call of load_variant_json: loads gets one more entry, and
\* not for a document line 288 refused
LoadCalled ==
    /\ Len(loads') = Len(loads) + 1
    /\ loads'[Len(loads')].outcome # "refused"

\* what download_json has to return for a fetched body: the current
\* revision's $schema when the body names the legacy one, and the body's
\* variants
NormalizedSchema(body) ==
    IF body.schema \in {RootSchema, V2Schema} THEN V3Schema ELSE body.schema

\* C11: in every call of load_variant_json the cache file is named by the
\* last segment of the URL in the package's directory.  If the file exists,
\* the call returns its content with no GET and leaves it as it is; if not,
\* the call fetches, and either ends with the exception of the fetch or of
\* the normalization and creates no file, or writes the normalized document
\* with its keys sorted to that file and returns the document as fetched.
\* No call touches another file of the directory, and no step of the
\* packages loop removes or changes a cache file.
C11_ReadThroughCache ==
    [][/\ LoadCalled =>
            LET l == loads'[Len(loads')]
                file == l.link.file
                ver == VARIANT_JSON_FILE_REGEX(l.name).ver
                before == DirOf(build, pkg_config.name).files
                after == DirOf(build', pkg_config.name).files
                failed == \/ l.outcome = "skipped"
                          \/ l.outcome = "raised" /\ error' # "ValueError"
            IN  /\ l.hit <=> file \in DOMAIN before
                /\ \A f \in DOMAIN before : f \in DOMAIN after /\ after[f] = before[f]
                /\ DOMAIN after \subseteq DOMAIN before \cup {file}
                /\ l.hit =>
                      /\ fetched' = fetched
                      /\ l.resp = NotAsked
                      /\ l.outcome = "loaded" =>
                            variant_configs'[ver] = FlattenVariants(before[file].variants)
                /\ ~l.hit =>
                      /\ Len(fetched') > Len(fetched)
                      /\ fetched'[Len(fetched) + 1] = "document"
                      /\ failed <=> file \notin DOMAIN after
                      /\ ~failed =>
                            /\ after[file] = StoredJson(after[file])
                            /\ after[file].schema = NormalizedSchema(l.resp.body)
                            /\ Has(l.resp.body, "variants") =>
                                  after[file].variants = SortKeys3(l.resp.body.variants)
                            /\ l.outcome = "loaded" =>
                                  variant_configs'[ver]
                                     = FlattenVariants(l.resp.body.variants)
       /\ pc = "packages" =>
             \A n \in DOMAIN build.dirs :
                /\ n \in DOMAIN build'.dirs
                /\ \A f \in DOMAIN build.dirs[n].files :
                      /\ f \in DOMAIN build'.dirs[n].files
                      /\ build'.dirs[n].files[f] = build.dirs[n].files[f]]_vars

\* C11 happens: one call failed and left no file, the next one fetched and
\* wrote its file, and a third one of the same file name was answered by
\* the file
C11_Witness ==
    /\ Len(loads) = 3
    /\ ~loads[1].hit /\ loads[1].outcome = "skipped"
    /\ ~loads[2].hit /\ loads[2].outcome = "loaded"
    /\ loads[3].hit /\ loads[3].outcome = "loaded"
    /\ loads[3].link.file = loads[2].link.file
    /\ DOMAIN DirOf(build, pkg_config.name).files = {loads[2].link.file}

\* the exception came out of lines 313-361, the documents loop being over
ReconcileFailed ==
    /\ pc = "aborted"
    /\ gp = "documents"
    /\ variants_json_files = <<>>

WhlLabelled(name) ==
    VARIANT_WHL_FILE_REGEX(name).ok /\ LabelOf(name) # NoLabel

\* a wheel with a label whose version has a loaded document
LabelledWithDocument(a) ==
    /\ a.kind = "whl"
    /\ WhlLabelled(a.name)
    /\ WheelVersionOf(a.name) \in DOMAIN variant_configs

\* C12 as claimed: a wheel with a label whose version has a loaded document
\* never makes the reconciliation fail: it is in the final list with the
\* vprops the document gives for its label, or it is left out when the
\* document has no entry for the label.
C12_MissingLabelExcluded ==
    /\ ReconcileFailed => error # "KeyError"
    /\ Returned =>
          \A i \in 1..Len(artifacts) :
             LET a == artifacts[i]
                 given == variant_configs[WheelVersionOf(a.name)]
             IN  LabelledWithDocument(a) =>
                    IF LabelOf(a.name) \in DOMAIN given
                    THEN \E j \in 1..Len(wheel_files) :
                            /\ wheel_files[j].name = a.name
                            /\ wheel_files[j].vprops = given[LabelOf(a.name)]
                    ELSE ~InWheelFiles(a)

\* the names of the packages whose call wrote a package index, in name order
IndexedPackages ==
    LET indexed == SelectSeq(SortedByName(packages),
                             LAMBDA p : /\ p.name \in DOMAIN outcomes
                                        /\ outcomes[p.name] = "index")
    IN  [i \in 1..Len(indexed) |-> indexed[i].name]

\* C13 as claimed: when the run is over and no package failed, the list in
\* the top-level index is the name-sorted list of the packages whose call
\* produced a package index: those are listed, and a package without wheels
\* is not.
C13_MainIndexListsIndexed ==
    pc = "done" =>
       /\ build.index.written
       /\ build.index.directories = IndexedPackages

=============================================================================
